---- MODULE Spec2Model ----
(***************************************************************************)
(* The state evolution engine of the Pizza Kiosk Analyzer                  *)
(* (src/App.tsx, src/components/DataManager.tsx): the AppData working      *)
(* copy held by useLocalStorage, the migration effect that runs on mount,  *)
(* the sanitized view, the mutation handlers, the file export and import,  *)
(* and the state of the sales history table                                *)
(* (src/components/SalesHistory.tsx, its second, id-based generation).     *)
(*                                                                         *)
(* JSON values are represented by records of one shape per collection:     *)
(*   - a collection field is [kind, n, items]: kind "arr" (an array with   *)
(*     the entries items), "num" (the bare number n), "null" or "absent"   *)
(*     (the key is missing, the value reads as undefined);                 *)
(*   - an entry is a record with kind "obj" (a non-null object), "null"    *)
(*     or "prim" (a primitive such as 5 or "x");                           *)
(*   - an id string is <<tag, time, k>>: `inv-${time}-${k}` is             *)
(*     <<"inv", time, k>>, a string that came with a stored or imported    *)
(*     document is <<"user", 0, k>>, and <<"none", 0, 0>> is a missing     *)
(*     (falsy) id;                                                         *)
(*   - a date is the millisecond count of its ISO string, 0 when missing;  *)
(*   - a number that a division produced is the reduced fraction <<n, d>>, *)
(*     with d = 0 for the non-finite results of a division by zero.        *)
(***************************************************************************)
EXTENDS Integers, Sequences, FiniteSets, TLC

VARIABLES appData, passes, last, salesHistory, clicks
vars == <<appData, passes, last, salesHistory, clicks>>

(* ------------------------------ bounds -------------------------------- *)
\* Most entries the four collections hold together when a handler appends.
MaxEntries == 3
\* Date.now() of a migration pass ranges over 1..MaxTime.
MaxTime == 2
\* Number of times the migration updater is applied in SpecMigrate.
MaxPasses == 2

Times == 1..MaxTime
\* The suffixes Math.random().toString(36).substr(2, 9) can produce.
Suffixes == {1, 2}

(* ------------------------------ values -------------------------------- *)
Undef == "<undefined>"
Names == {"Dough", "dough", "Cheese"}
\* String.prototype.toLowerCase on the names in use.
ToLowerCase(s) ==
  CASE s = "Dough" -> "dough"
    [] s = "DOUGH" -> "dough"
    [] s = "Cheese" -> "cheese"
    [] s = "X" -> "x"
    [] OTHER -> s

NoId == <<"none", 0, 0>>
UserId(k) == <<"user", 0, k>>
GenId(tag, t, k) == <<tag, t, k>>
\* !id of the code: a missing id is falsy, every id string here is truthy.
Falsy(id) == id[1] = "none"

RECURSIVE Gcd(_, _)
Gcd(a, b) == IF b = 0 THEN a ELSE Gcd(b, a % b)
\* a / b of two non-negative numbers, as a reduced fraction.
Divide(a, b) ==
  IF b = 0 THEN <<(IF a = 0 THEN 0 ELSE 1), 0>>
  ELSE LET g == Gcd(a, b) IN <<a \div g, b \div g>>
Whole(n) == <<n, 1>>

Arr(s) == [kind |-> "arr", n |-> 0, items |-> s]
NullColl == [kind |-> "null", n |-> 0, items |-> <<>>]
AbsentColl == [kind |-> "absent", n |-> 0, items |-> <<>>]
NumColl(n) == [kind |-> "num", n |-> n, items |-> <<>>]
\* Array.isArray
IsArray(c) == c.kind = "arr"

InventoryItem(id, item, quantity, costPerUnit, date) ==
  [kind |-> "obj", id |-> id, item |-> item, quantity |-> quantity,
   costPerUnit |-> costPerUnit, date |-> date]
Purchase(item, quantity, cost, date) ==
  [kind |-> "obj", item |-> item, quantity |-> quantity, cost |-> cost, date |-> date]
Sale(id, revenue, date) ==
  [kind |-> "obj", id |-> id, revenue |-> revenue, date |-> date]
Expense(name, amount) == [kind |-> "obj", name |-> name, amount |-> amount]

\* A null or primitive entry of each collection.
BadInventory(k) == [InventoryItem(NoId, Undef, 0, Whole(0), 0) EXCEPT !.kind = k]
BadPurchase(k) == [Purchase(Undef, 0, 0, 0) EXCEPT !.kind = k]
BadSale(k) == [Sale(NoId, 0, 0) EXCEPT !.kind = k]
BadExpense(k) == [Expense(Undef, 0) EXCEPT !.kind = k]

AppDataOf(inventory, purchases, sales, rent, otherExpenses) ==
  [root |-> "obj", inventory |-> inventory, purchases |-> purchases,
   sales |-> sales, rent |-> rent, otherExpenses |-> otherExpenses]
\* The initial value handed to useLocalStorage.
DefaultAppData == AppDataOf(Arr(<<>>), Arr(<<>>), Arr(<<>>), 0, Arr(<<>>))
\* A stored root that is null, or a primitive: every key reads as undefined.
NonObjectRoot(k) ==
  [AppDataOf(AbsentColl, AbsentColl, AbsentColl, 0, AbsentColl) EXCEPT !.root = k]

Keys == {"inventory", "purchases", "sales", "otherExpenses"}
Field(d, key) ==
  CASE key = "inventory" -> d.inventory
    [] key = "purchases" -> d.purchases
    [] key = "sales" -> d.sales
    [] key = "otherExpenses" -> d.otherExpenses

(* --------------------------- migration effect -------------------------- *)
isValidObject(e) == e.kind = "obj"

\* JSON.parse(JSON.stringify(x)) of a number: a non-finite number becomes null,
\* which reads back as 0 in arithmetic; finite numbers are kept.
JsonNumber(f) == IF f[2] = 0 THEN Whole(0) ELSE f
JsonInventory(c) ==
  [c EXCEPT !.items =
     [i \in 1..Len(c.items) |->
        [c.items[i] EXCEPT !.costPerUnit = JsonNumber(c.items[i].costPerUnit)]]]
\* The deep copy the updater mutates.
DeepCopy(d) == [d EXCEPT !.inventory = JsonInventory(d.inventory)]

\* A variant that empties an array in which it finds an invalid entry.
SanitizedArrayResets(c) ==
  IF IsArray(c) /\ Len(SelectSeq(c.items, isValidObject)) = Len(c.items) THEN c
  ELSE Arr(<<>>)
\* Step 1 for one key: the value stored under it afterwards.
SanitizedArray(c) ==
  IF IsArray(c) THEN Arr(SelectSeq(c.items, isValidObject)) ELSE Arr(<<>>)
\* A variant that flags every array, filtered or not.
SanitizeAlwaysUpdates(c) ==
  IF IsArray(c) THEN Len(SelectSeq(c.items, isValidObject)) <= Len(c.items) ELSE TRUE
\* Step 1 for one key: whether it set needsUpdate.
SanitizeNeedsUpdate(c) ==
  IF IsArray(c) THEN Len(SelectSeq(c.items, isValidObject)) < Len(c.items) ELSE TRUE

\* Steps 2 and 3: some entry has no id.
SomeLacksId(c) == IsArray(c) /\ \E i \in 1..Len(c.items) : Falsy(c.items[i].id)
\* A variant whose ids leave out the index.
WithMigratedIdsUnindexed(c, prefix, now) ==
  IF SomeLacksId(c)
  THEN Arr([i \in 1..Len(c.items) |->
              IF Falsy(c.items[i].id)
              THEN [c.items[i] EXCEPT !.id = GenId(prefix, now, 0)]
              ELSE c.items[i]])
  ELSE c
\* Steps 2 and 3: the map that fills in `${prefix}-${Date.now()}-${index}`.
WithMigratedIds(c, prefix, now) ==
  IF SomeLacksId(c)
  THEN Arr([i \in 1..Len(c.items) |->
              IF Falsy(c.items[i].id)
              THEN [c.items[i] EXCEPT !.id = GenId(prefix, now, i - 1)]
              ELSE c.items[i]])
  ELSE c

\* The updater of the migration effect, applied to currentData at time now.
\* A root that is no object makes `migratedData[key]` (null) or the
\* assignment to it (a primitive, in module code, which is strict) throw.
MigrateUpdater(currentData, now) ==
  IF currentData.root # "obj"
  THEN [raised |-> TRUE, changed |-> FALSE, data |-> currentData]
  ELSE
    LET copy == DeepCopy(currentData)
        s1 == [copy EXCEPT !.inventory = SanitizedArray(copy.inventory),
                           !.purchases = SanitizedArray(copy.purchases),
                           !.sales = SanitizedArray(copy.sales),
                           !.otherExpenses = SanitizedArray(copy.otherExpenses)]
        u1 == \E key \in Keys : SanitizeNeedsUpdate(Field(copy, key))
        s2 == [s1 EXCEPT !.inventory = WithMigratedIds(s1.inventory, "migrated-inv", now)]
        u2 == SomeLacksId(s1.inventory)
        s3 == [s2 EXCEPT !.sales = WithMigratedIds(s2.sales, "migrated-sale", now)]
        u3 == SomeLacksId(s2.sales)
        needsUpdate == u1 \/ u2 \/ u3
    IN [raised |-> FALSE, changed |-> needsUpdate,
        data |-> IF needsUpdate THEN s3 ELSE currentData]

(* ---------------------------- sanitized view -------------------------- *)
\* A variant that passes the arrays on as they are.
ArrayOrEmpty(c) == IF IsArray(c) THEN Arr(c.items) ELSE Arr(<<>>)
\* (Array.isArray(x) ? x : []).filter(isValidObject)
FilteredArray(c) ==
  Arr(SelectSeq(IF IsArray(c) THEN c.items ELSE <<>>, isValidObject))
\* A variant that shows no rent.
RentDropped(rent) == 0
\* appData.rent || 0
RentOrZero(rent) == IF rent = 0 THEN 0 ELSE rent
\* The value of the useMemo: a new object, built from reads of appData only.
\* A root that is a primitive reads as undefined under every key.
sanitizedAppData(d) ==
  AppDataOf(FilteredArray(d.inventory), FilteredArray(d.purchases),
            FilteredArray(d.sales), RentOrZero(d.rent), FilteredArray(d.otherExpenses))

(* ------------------------------ handlers ------------------------------ *)
\* What an updater yields: the next working copy, or raised with the working
\* copy left as it was; alert names the message shown, "none" when there is none.
Returned(data) == [raised |-> FALSE, alert |-> "none", data |-> data]
Raised(prevData) == [raised |-> TRUE, alert |-> "none", data |-> prevData]

\* `[...c, x]`: spreading a value that is no array (undefined, null, a number) throws.
Spreadable(c) == IsArray(c)
\* c.map / c.filter with a callback that reads a property of each entry:
\* throws when c is no array and when an entry is null.
ReadsEachEntry(c) == IsArray(c) /\ \A i \in 1..Len(c.items) : c.items[i].kind # "null"
\* The ids a collection carries.
IdsIn(c) == {c.items[i].id : i \in 1..Len(c.items)}
\* Math.random's suffix is taken to differ from the suffix of every id the
\* collection already holds for the same prefix and millisecond.
FreshSuffixes(c, prefix, now) == {r \in Suffixes : GenId(prefix, now, r) \notin IdsIn(c)}

\* A variant without the guard: purchase.cost / purchase.quantity.
CostPerUnitUnguarded(cost, quantity) == Divide(cost, quantity)
\* purchase.cost > 0 && purchase.quantity > 0 ? purchase.cost / purchase.quantity : 0
CostPerUnit(cost, quantity) ==
  IF cost > 0 /\ quantity > 0 THEN Divide(cost, quantity) ELSE Whole(0)
\* x.date || new Date().toISOString()
\* A variant that stamps every entry with the current time.
DateAlwaysNow(date, now) == now
DateOrNow(date, now) == IF date = 0 THEN now ELSE date

handleAddPurchase(prevData, purchase, now, rnd) ==
  LET purchaseWithDate == [purchase EXCEPT !.date = DateOrNow(purchase.date, now)]
      newInventoryItem ==
        InventoryItem(GenId("inv", now, rnd), purchase.item, purchase.quantity,
                      CostPerUnit(purchase.cost, purchase.quantity),
                      purchaseWithDate.date)
  IN IF ~Spreadable(prevData.purchases) \/ ~Spreadable(prevData.inventory)
     THEN Raised(prevData)
     ELSE Returned([prevData EXCEPT
            !.root = "obj",
            !.purchases = Arr(Append(prevData.purchases.items, purchaseWithDate)),
            !.inventory = Arr(Append(prevData.inventory.items, newInventoryItem))])

handleAddSale(prevData, sale, now, rnd) ==
  LET saleWithDateAndId ==
        Sale(GenId("sale", now, rnd), sale.revenue, DateOrNow(sale.date, now))
  IN IF ~Spreadable(prevData.sales)
     THEN Raised(prevData)
     ELSE Returned([prevData EXCEPT
            !.root = "obj",
            !.sales = Arr(Append(prevData.sales.items, saleWithDateAndId))])

\* A variant that replaces the other entries.
ReplaceOthersById(c, updated) ==
  Arr([i \in 1..Len(c.items) |->
         IF c.items[i].id # updated.id THEN updated ELSE c.items[i]])
\* c.map(e => e.id === updated.id ? updated : e)
ReplaceById(c, updated) ==
  Arr([i \in 1..Len(c.items) |->
         IF c.items[i].id = updated.id THEN updated ELSE c.items[i]])
\* A variant that keeps the entries of the id instead of the others.
RemoveByIdKeepsMatch(c, id) == Arr(SelectSeq(c.items, LAMBDA e : e.id = id))
\* c.filter(e => e.id !== id)
RemoveById(c, id) == Arr(SelectSeq(c.items, LAMBDA e : e.id # id))

handleUpdateSale(prevData, updatedSale) ==
  IF ~ReadsEachEntry(prevData.sales) THEN Raised(prevData)
  ELSE Returned([prevData EXCEPT !.root = "obj",
                                 !.sales = ReplaceById(prevData.sales, updatedSale)])

handleDeleteSale(prevData, saleId) ==
  IF ~ReadsEachEntry(prevData.sales) THEN Raised(prevData)
  ELSE Returned([prevData EXCEPT !.root = "obj",
                                 !.sales = RemoveById(prevData.sales, saleId)])

\* inv.item.toLowerCase() throws unless inv is an object with a string item.
HasName(inv) == inv.kind = "obj" /\ inv.item # Undef
\* A variant that compares the names as written.
SameNameExact(inv, item) == HasName(inv) /\ inv.item = item.item
SameName(inv, item) == HasName(inv) /\ ToLowerCase(inv.item) = ToLowerCase(item.item)
\* Array.prototype.find visits the entries in order and stops at the first match:
\* the index of the first entry that matches or throws, 0 when there is none.
FirstStop(c, item) ==
  IF \E i \in 1..Len(c.items) : ~HasName(c.items[i]) \/ SameName(c.items[i], item)
  THEN CHOOSE i \in 1..Len(c.items) :
         /\ ~HasName(c.items[i]) \/ SameName(c.items[i], item)
         /\ \A j \in 1..(i - 1) : HasName(c.items[j]) /\ ~SameName(c.items[j], item)
  ELSE 0

handleAddInventory(prevData, item, now, rnd) ==
  LET inv == prevData.inventory
      stop == FirstStop(inv, item)
      newItemWithId == [item EXCEPT !.id = GenId("inv", now, rnd)]
  IN IF ~IsArray(inv) THEN Raised(prevData)
     ELSE IF stop # 0 /\ ~HasName(inv.items[stop]) THEN Raised(prevData)
     ELSE IF stop # 0 THEN [raised |-> FALSE, alert |-> "exists", data |-> prevData]
     ELSE Returned([prevData EXCEPT !.inventory = Arr(Append(inv.items, newItemWithId))])

\* ({ ...prevData, rent }): spreading null or a primitive yields no keys.
handleSetRent(prevData, rent) ==
  Returned([prevData EXCEPT !.root = "obj", !.rent = rent])

\* A variant that puts the new expense first.
handleAddExpenseAtFront(prevData, expense) ==
  IF ~Spreadable(prevData.otherExpenses) THEN Raised(prevData)
  ELSE Returned([prevData EXCEPT
         !.root = "obj",
         !.otherExpenses = Arr(<<expense>> \o prevData.otherExpenses.items)])
handleAddExpense(prevData, expense) ==
  IF ~Spreadable(prevData.otherExpenses) THEN Raised(prevData)
  ELSE Returned([prevData EXCEPT
         !.root = "obj",
         !.otherExpenses = Arr(Append(prevData.otherExpenses.items, expense))])

\* c.filter((_, index) => index !== expenseIndex), indices from 0
RemoveAt(s, expenseIndex) ==
  [i \in 1..(Len(s) - (IF expenseIndex + 1 \in 1..Len(s) THEN 1 ELSE 0)) |->
     IF expenseIndex + 1 \in 1..Len(s) /\ i >= expenseIndex + 1 THEN s[i + 1] ELSE s[i]]

handleDeleteExpense(prevData, expenseIndex) ==
  IF ~IsArray(prevData.otherExpenses) THEN Raised(prevData)
  ELSE Returned([prevData EXCEPT
         !.root = "obj",
         !.otherExpenses = Arr(RemoveAt(prevData.otherExpenses.items, expenseIndex))])

handleUpdateInventoryItem(prevData, updatedItem) ==
  IF ~ReadsEachEntry(prevData.inventory) THEN Raised(prevData)
  ELSE Returned([prevData EXCEPT
         !.root = "obj",
         !.inventory = ReplaceById(prevData.inventory, updatedItem)])

\* A variant that also drops the purchases of the deleted item's name.
handleDeleteInventoryItemAndPurchases(prevData, itemId) ==
  IF ~ReadsEachEntry(prevData.inventory) THEN Raised(prevData)
  ELSE Returned([prevData EXCEPT
         !.root = "obj",
         !.inventory = RemoveById(prevData.inventory, itemId),
         !.purchases =
            Arr(SelectSeq(prevData.purchases.items,
                          LAMBDA p : \A i \in 1..Len(prevData.inventory.items) :
                                       prevData.inventory.items[i].id = itemId
                                         => prevData.inventory.items[i].item # p.item))])
handleDeleteInventoryItem(prevData, itemId) ==
  IF ~ReadsEachEntry(prevData.inventory) THEN Raised(prevData)
  ELSE Returned([prevData EXCEPT
         !.root = "obj",
         !.inventory = RemoveById(prevData.inventory, itemId)])

(* ------------------------- the record of a step ------------------------ *)
\* What the last handler was, what it was given, the working copy it was
\* applied to and how it ended.
Step(op, arg, prev, raised, alert, changed) ==
  [op |-> op, arg |-> arg, prev |-> prev, raised |-> raised,
   alert |-> alert, changed |-> changed]
NoArg == [none |-> TRUE]
NoStep == Step("none", NoArg, DefaultAppData, FALSE, "none", FALSE)

(* ----------------------- the sales history table ---------------------- *)
\* The null of useState<string | null>: no id, and not the undefined (NoId)
\* that a sale without an id has.
NullId == <<"null", 0, 0>>
\* A revenue field that the user has not typed in.
Untyped == "<untyped>"
\* The state of SalesHistory: editingSaleId, editedSale (a copy of the sale,
\* kind "null" for null, with the text typed into the revenue input beside
\* the number it started with) and saleToDeleteId.
HistoryState(editingSaleId, editedSale, saleToDeleteId) ==
  [editingSaleId |-> editingSaleId, editedSale |-> editedSale,
   saleToDeleteId |-> saleToDeleteId]
Edited(sale, typed) ==
  [kind |-> sale.kind, id |-> sale.id, revenue |-> sale.revenue, date |-> sale.date,
   typed |-> typed]
NoEdited == Edited(BadSale("null"), Untyped)
\* The three useState(null).
HistoryClosed == HistoryState(NullId, NoEdited, NullId)
\* What the user did, for the statements about it: the id of the last edit
\* click that no cancel click followed, and the id of the last delete request
\* that no edit or cancel click followed.
Clicks(entered, requested) == [entered |-> entered, requested |-> requested]
NoClicks == Clicks(NullId, NullId)
Unopened == salesHistory = HistoryClosed /\ clicks = NoClicks

\* setAppData(updater): the working copy becomes what the updater returns.
Record(op, arg, r) ==
  /\ appData' = r.data
  /\ last' = Step(op, arg, appData, r.raised, r.alert, FALSE)
  /\ UNCHANGED passes
\* A handler of App called from outside the sales history.
Dispatch(op, arg, r) == Record(op, arg, r) /\ UNCHANGED <<salesHistory, clicks>>

\* useEffect(() => setAppData(updater)): one pass of the migration.
MigrationPass ==
  \E now \in Times :
    LET r == MigrateUpdater(appData, now) IN
      /\ appData' = r.data
      /\ passes' = passes + 1
      /\ last' = Step("migrate", [now |-> now], appData, r.raised, "none", r.changed)
      /\ UNCHANGED <<salesHistory, clicks>>

(* ----------------------------- user actions ---------------------------- *)
\* Purchases with and without a date, and with each sign pattern of cost and
\* quantity, among them the two of the specification's costing property.
PurchaseInputs ==
  {Purchase("Cheese", 10, 50, 0), Purchase("X", 0, 0, 10), Purchase("dough", 10, 0, 10),
   Purchase("Dough", 0, 50, 0), Purchase("Cheese", 4, 6, 10)}
SaleInputs == {Sale(NoId, 100, 0), Sale(NoId, 100, 10)}
InventoryInputs == {InventoryItem(NoId, item, 1, Whole(2), 10) : item \in Names}
ExpenseInputs == {Expense("Gas", 3), Expense("Ads", 4)}
\* What the forms hand to the handlers, and the milliseconds at which they are
\* called: every input above, a rename to a name in use in another case or to
\* another name ...
AllInputs ==
  [purchases |-> PurchaseInputs, sales |-> SaleInputs, items |-> InventoryInputs,
   names |-> {"dough", "Cheese"}, revenues |-> {250}, expenses |-> ExpenseInputs,
   rents |-> {0, 500}, times |-> {1, 2}]
\* ... or one input per handler, all in the same millisecond.
FewInputs ==
  [purchases |-> {Purchase("Cheese", 10, 50, 0)}, sales |-> {Sale(NoId, 100, 0)},
   items |-> {InventoryItem(NoId, "Dough", 1, Whole(2), 10)},
   names |-> {"dough"}, revenues |-> {250}, expenses |-> {Expense("Gas", 3)},
   rents |-> {500}, times |-> {1}]
\* ... or a few per handler: sales with and without a date, two expenses that
\* can be told apart, two milliseconds.
LedgerInputs ==
  [purchases |-> {Purchase("Cheese", 10, 50, 0)}, sales |-> SaleInputs,
   items |-> {InventoryItem(NoId, "Dough", 1, Whole(2), 10)},
   names |-> {"dough"}, revenues |-> {250}, expenses |-> ExpenseInputs,
   rents |-> {500}, times |-> {1, 2}]

\* An id that no entry carries.
UnknownId == UserId(9)
\* The ids an update or a delete is called with.
IdInputs(c) == IdsIn(c) \cup {UnknownId}

\* The number of entries of the working copy.
Entries(d) ==
  Len(d.inventory.items) + Len(d.purchases.items) + Len(d.sales.items)
    + Len(d.otherExpenses.items)
\* The working copy has room for k more entries.
Room(k) == Entries(appData) + k <= MaxEntries

RecordPurchase(in) ==
  /\ Room(2)
  /\ \E purchase \in in.purchases, now \in in.times :
       \E rnd \in FreshSuffixes(appData.inventory, "inv", now) :
         Dispatch("recordPurchase", [purchase |-> purchase, now |-> now],
                  handleAddPurchase(appData, purchase, now, rnd))

RecordSale(in) ==
  /\ Room(1)
  /\ \E sale \in in.sales, now \in in.times :
       \E rnd \in FreshSuffixes(appData.sales, "sale", now) :
         Dispatch("recordSale", [sale |-> sale, now |-> now],
                  handleAddSale(appData, sale, now, rnd))

UpdateSale(in) ==
  \E id \in IdInputs(appData.sales), revenue \in in.revenues :
    LET updatedSale == Sale(id, revenue, 10) IN
      Dispatch("updateSale", [sale |-> updatedSale],
               handleUpdateSale(appData, updatedSale))

DeleteSale ==
  \E id \in IdInputs(appData.sales) :
    Dispatch("deleteSale", [id |-> id], handleDeleteSale(appData, id))

CreateInventoryItem(in) ==
  /\ Room(1)
  /\ \E item \in in.items, now \in in.times :
       \E rnd \in FreshSuffixes(appData.inventory, "inv", now) :
         Dispatch("createInventoryItem", [item |-> item, now |-> now],
                  handleAddInventory(appData, item, now, rnd))

UpdateInventoryItem(in) ==
  \E id \in IdInputs(appData.inventory), item \in in.names :
    LET updatedItem == InventoryItem(id, item, 3, Whole(2), 10) IN
      Dispatch("updateInventoryItem", [item |-> updatedItem],
               handleUpdateInventoryItem(appData, updatedItem))

DeleteInventoryItem ==
  \E id \in IdInputs(appData.inventory) :
    Dispatch("deleteInventoryItem", [id |-> id],
             handleDeleteInventoryItem(appData, id))

SetRent(in) ==
  \E rent \in in.rents :
    Dispatch("setRent", [rent |-> rent], handleSetRent(appData, rent))

AddExpense(in) ==
  /\ Room(1)
  /\ \E expense \in in.expenses :
       Dispatch("addExpense", [expense |-> expense], handleAddExpense(appData, expense))

DeleteExpense ==
  \E expenseIndex \in 0..Len(appData.otherExpenses.items) :
    Dispatch("deleteExpense", [index |-> expenseIndex],
             handleDeleteExpense(appData, expenseIndex))

(* ----------------- several dispatches before a re-render --------------- *)
\* A handler call that is waiting to be applied: the handler, its argument
\* (the other argument field is a filler) and the clock and random suffix it
\* will read.
Updaters(in) ==
  {[op |-> "createInventoryItem", item |-> item, sale |-> Sale(NoId, 0, 0),
    now |-> now, rnd |-> rnd] : item \in in.items, now \in in.times, rnd \in Suffixes}
    \cup {[op |-> "recordSale", item |-> InventoryItem(NoId, Undef, 0, Whole(0), 0),
            sale |-> sale, now |-> now, rnd |-> rnd] :
             sale \in in.sales, now \in in.times, rnd \in Suffixes}
\* The function the handler passes to setAppData, applied to prevData.
Updater(u, prevData) ==
  IF u.op = "createInventoryItem"
  THEN handleAddInventory(prevData, u.item, u.now, u.rnd)
  ELSE handleAddSale(prevData, u.sale, u.now, u.rnd)
\* A variant in which the handler computes from the appData of the render.
SnapshotReadRendered(rendered, prevData) == rendered
\* The snapshot a handler computes from: the parameter of its updater, not the
\* appData of the render in which the handler was created.
SnapshotRead(rendered, prevData) == prevData

RECURSIVE setAppData(_, _, _)
\* The setter of useLocalStorage, called with the updaters us one after
\* another: it serializes the writes, calling each updater with the snapshot
\* the previous one produced. r is the outcome so far; an updater that throws
\* ends the sequence.
setAppData(rendered, r, us) ==
  IF us = <<>> \/ r.raised THEN r
  ELSE LET next == Updater(Head(us), SnapshotRead(rendered, r.data))
       IN setAppData(rendered,
                     [next EXCEPT !.alert = IF next.alert = "none" THEN r.alert ELSE next.alert],
                     Tail(us))

\* Two handler calls in the same millisecond, before App renders again. The
\* two suffixes differ from each other and from those in use.
DispatchTwo(in) ==
  /\ Room(2)
  /\ \E first, second \in Updaters(in) :
       /\ first.now = second.now
       /\ first.rnd # second.rnd
       /\ \A u \in {first, second} :
            u.rnd \in (IF u.op = "recordSale"
                       THEN FreshSuffixes(appData.sales, "sale", u.now)
                       ELSE FreshSuffixes(appData.inventory, "inv", u.now))
       /\ Dispatch("batch", [first |-> first, second |-> second],
                   setAppData(appData, Returned(appData), <<first, second>>))

(* -------------------------------- import ------------------------------- *)
\* A selected file: text that JSON.parse rejects, or the text of a value.
Unparsable == [parses |-> FALSE, value |-> DefaultAppData]
FileOf(value) == [parses |-> TRUE, value |-> value]
\* A variant that does not ask for the purchases key.
HasInventoryAndSales(v) == v.inventory.kind # "absent" /\ v.sales.kind # "absent"
\* 'inventory' in v && 'sales' in v && 'purchases' in v
HasRequiredKeys(v) ==
  v.inventory.kind # "absent" /\ v.sales.kind # "absent" /\ v.purchases.kind # "absent"

\* reader.onload of handleFileChange: the value handed to onImportData, if any.
\* JSON.parse throwing, the `in` operator throwing on null or a primitive and
\* the missing-key Error all end in the catch block's alert.
handleFileChange(prevData, file, isConfirmed) ==
  IF ~file.parses \/ file.value.root # "obj" \/ ~HasRequiredKeys(file.value)
  THEN [raised |-> FALSE, alert |-> "import-failed", data |-> prevData]
  ELSE IF isConfirmed
       THEN [raised |-> FALSE, alert |-> "imported", data |-> file.value]
       ELSE [raised |-> FALSE, alert |-> "none", data |-> prevData]

ImportFiles ==
  {Unparsable,
   FileOf(NonObjectRoot("null")),
   FileOf(NonObjectRoot("prim")),
   FileOf(AppDataOf(Arr(<<>>), AbsentColl, Arr(<<>>), 0, Arr(<<>>))),
   FileOf(AppDataOf(Arr(<<InventoryItem(UserId(1), "Cheese", 1, Whole(2), 10)>>), Arr(<<>>),
                    Arr(<<Sale(UserId(1), 100, 10)>>), 500, Arr(<<>>))),
   FileOf(AppDataOf(NullColl, Arr(<<>>),
                    Arr(<<Sale(UserId(1), 100, 10), Sale(UserId(1), 100, 10)>>), 0,
                    AbsentColl)),
   FileOf(AppDataOf(Arr(<<BadInventory("prim")>>), Arr(<<>>),
                    Arr(<<Sale(NoId, 100, 10), BadSale("null")>>), 0, Arr(<<>>)))}

Import ==
  /\ passes >= 1
  /\ \E file \in ImportFiles, isConfirmed \in BOOLEAN :
       Dispatch("import", [file |-> file, isConfirmed |-> isConfirmed],
                handleFileChange(appData, file, isConfirmed))

\* handleExportData: the downloaded file, as the value its text parses to
\* (JSON.stringify writes a non-finite number as null).
handleExportData(view) == FileOf(DeepCopy(view))

\* The user exports and then imports the downloaded file, confirming. An
\* import overwrites the whole working copy, so what happens between the two
\* does not matter to the outcome. A null root fails the render: no buttons.
ExportThenImport ==
  /\ passes >= 1
  /\ appData.root # "null"
  /\ LET file == handleExportData(sanitizedAppData(appData)) IN
       Dispatch("exportImport", [file |-> file, isConfirmed |-> TRUE],
                handleFileChange(appData, file, TRUE))

\* A render of App: the useMemo computes the view; `appData.rent` throws on a
\* null root. Nothing is written.
Render ==
  /\ appData' = appData
  /\ passes' = passes
  /\ UNCHANGED <<salesHistory, clicks>>
  /\ last' = IF appData.root = "null"
             THEN Step("render", [view |-> DefaultAppData], appData, TRUE, "none", FALSE)
             ELSE Step("render", [view |-> sanitizedAppData(appData)], appData,
                       FALSE, "none", FALSE)

\* The handlers the rendered components call, once the effect has run.
Mutation(in) ==
  /\ passes >= 1
  /\ \/ RecordPurchase(in)
     \/ RecordSale(in)
     \/ UpdateSale(in)
     \/ DeleteSale
     \/ CreateInventoryItem(in)
     \/ UpdateInventoryItem(in)
     \/ DeleteInventoryItem
     \/ SetRent(in)
     \/ AddExpense(in)
     \/ DeleteExpense

\* The effect runs once, after the first render.
Mount == passes = 0 /\ MigrationPass

(* ------------------------- Spec: the application ----------------------- *)
\* What the store can hold at startup: nothing (the default), the JSON value
\* null, a legacy document, a document whose inventory entry has no name and
\* a document of two sales recorded before sales had ids.
StoredDocs ==
  {DefaultAppData,
   NonObjectRoot("null"),
   AppDataOf(Arr(<<InventoryItem(NoId, "Dough", 1, Whole(1), 10)>>), Arr(<<>>),
             Arr(<<Sale(NoId, 100, 10), BadSale("null")>>), 1, NumColl(5)),
   AppDataOf(Arr(<<InventoryItem(UserId(1), Undef, 1, Whole(1), 10)>>), Arr(<<>>),
             Arr(<<>>), 0, Arr(<<>>)),
   AppDataOf(Arr(<<>>), Arr(<<>>), Arr(<<Sale(NoId, 100, 10), Sale(NoId, 100, 10)>>), 0,
             Arr(<<>>))}

Init ==
  /\ appData \in StoredDocs
  /\ passes = 0
  /\ last = NoStep
  /\ Unopened
Next == Mount \/ Mutation(FewInputs) \/ Import \/ ExportThenImport
Spec == Init /\ [][Next]_vars

(* ------- SpecInventory: a new installation, the stock handlers --------- *)
InitInventory ==
  /\ appData = DefaultAppData
  /\ passes = 0
  /\ last = NoStep
  /\ Unopened
NextInventory ==
  \/ Mount
  \/ passes >= 1 /\ RecordPurchase(AllInputs)
  \/ passes >= 1 /\ CreateInventoryItem(AllInputs)
  \/ passes >= 1 /\ UpdateInventoryItem(AllInputs)
  \/ passes >= 1 /\ DeleteInventoryItem
SpecInventory == InitInventory /\ [][NextInventory]_vars

(* ------------------- the handlers of the sales history ----------------- *)
\* What a handler of SalesHistory yields: the next state of the component, or
\* raised with the state left as it was.
HistoryReturned(h) == [raised |-> FALSE, state |-> h]
HistoryRaised(h) == [raised |-> TRUE, state |-> h]

\* A variant that leaves a pending delete request in place.
handleEditClickKeepsRequest(h, sale) ==
  HistoryState(sale.id, Edited(sale, Untyped), h.saleToDeleteId)
handleEditClick(h, sale) == HistoryState(sale.id, Edited(sale, Untyped), NullId)

\* parseFloat of the texts a number input can hold: <<isNaN, value>>.
ParseFloat(text) ==
  CASE text = "250" -> <<FALSE, 250>>
    [] text = "007" -> <<FALSE, 7>>
    [] OTHER -> <<TRUE, 0>>
\* parseFloat(String(editedSale.revenue)) || 0: the number the copy started
\* with when nothing was typed, else the number the text parses to; NaN and 0
\* are falsy.
RevenueToSave(edited) ==
  IF edited.typed = Untyped THEN edited.revenue
  ELSE LET f == ParseFloat(edited.typed) IN IF f[1] THEN 0 ELSE f[2]
saleToSave(edited) == Sale(edited.id, RevenueToSave(edited), edited.date)
\* if (editedSale && editingSaleId !== null)
SaveApplies(h) == h.editedSale.kind = "obj" /\ h.editingSaleId # NullId
\* A variant that keeps the copy after saving.
handleSaveClickKeepsCopy(h) ==
  IF SaveApplies(h) THEN HistoryState(NullId, h.editedSale, h.saleToDeleteId) ELSE h
\* The state part of handleSaveClick; saleToDeleteId is not written.
handleSaveClick(h) ==
  IF SaveApplies(h) THEN HistoryState(NullId, NoEdited, h.saleToDeleteId) ELSE h

handleCancelClick(h) == HistoryClosed

\* new Date(value) of the values a date input can hold, as milliseconds; 0 is
\* the Invalid Date of the empty value, on which toISOString throws.
ParseDate(value) == IF value = "1970-01-21" THEN 20 ELSE 0
handleEditChange(h, name, value) ==
  IF h.editedSale.kind # "obj" THEN HistoryReturned(h)
  ELSE IF name = "date"
       THEN IF ParseDate(value) = 0 THEN HistoryRaised(h)
            ELSE HistoryReturned([h EXCEPT !.editedSale.date = ParseDate(value)])
       ELSE HistoryReturned([h EXCEPT !.editedSale.typed = value])

\* The state part of handleConfirmDelete.
handleConfirmDelete(h) == HistoryClosed

\* cleanSales: the filter applied to the sales prop, which App passes from
\* the sanitized view.
cleanSales == FilteredArray(sanitizedAppData(appData).sales).items
\* What a row shows: the confirmation, the inputs or the plain sale.
RowMode(h, sale) ==
  IF h.editingSaleId = sale.id
  THEN IF h.saleToDeleteId = sale.id THEN "confirm" ELSE "edit"
  ELSE "view"
\* The sales whose row shows the buttons of a mode.
RowsIn(mode) ==
  {cleanSales[i] : i \in {j \in 1..Len(cleanSales) : RowMode(salesHistory, cleanSales[j]) = mode}}

\* A click that changes the component alone.
Click(op, arg, raised, h, c) ==
  /\ salesHistory' = h
  /\ clicks' = c
  /\ last' = Step(op, arg, appData, raised, "none", FALSE)
  /\ UNCHANGED <<appData, passes>>

EditClick ==
  \E sale \in RowsIn("view") :
    Click("editClick", [id |-> sale.id], FALSE,
          handleEditClick(salesHistory, sale), Clicks(sale.id, NullId))

EditInputs ==
  {<<"date", "1970-01-21">>, <<"date", "">>, <<"revenue", "250">>,
   <<"revenue", "007">>, <<"revenue", "">>}
EditChange ==
  /\ RowsIn("edit") # {}
  /\ \E e \in EditInputs :
       LET r == handleEditChange(salesHistory, e[1], e[2]) IN
         Click("editChange", [name |-> e[1], value |-> e[2]], r.raised, r.state, clicks)

SaveClick ==
  /\ RowsIn("edit") # {}
  /\ LET sale == saleToSave(salesHistory.editedSale)
         r == IF SaveApplies(salesHistory) THEN handleUpdateSale(appData, sale)
              ELSE Returned(appData)
     IN /\ Record("saveClick",
                  [sale |-> sale, typed |-> salesHistory.editedSale.typed,
                   edited |-> salesHistory.editedSale, entered |-> clicks.entered], r)
        /\ salesHistory' = handleSaveClick(salesHistory)
        /\ clicks' = clicks

\* setSaleToDeleteId(sale.id)
TrashClick ==
  \E sale \in RowsIn("edit") :
    Click("trashClick", [id |-> sale.id], FALSE,
          [salesHistory EXCEPT !.saleToDeleteId = sale.id],
          [clicks EXCEPT !.requested = sale.id])

\* setSaleToDeleteId(null)
CancelDeleteClick ==
  /\ RowsIn("confirm") # {}
  /\ Click("cancelDeleteClick", NoArg, FALSE,
           [salesHistory EXCEPT !.saleToDeleteId = NullId],
           [clicks EXCEPT !.requested = NullId])

CancelClick ==
  /\ RowsIn("edit") # {}
  /\ Click("cancelClick", NoArg, FALSE, handleCancelClick(salesHistory), NoClicks)

ConfirmDeleteClick ==
  \E sale \in RowsIn("confirm") :
    /\ Record("confirmDelete",
              [id |-> sale.id, entered |-> clicks.entered,
               requested |-> clicks.requested],
              handleDeleteSale(appData, sale.id))
    /\ salesHistory' = handleConfirmDelete(salesHistory)
    /\ clicks' = NoClicks

(* ------- SpecHistory: a ledger of sales and the sales history table ---- *)
\* What the store holds at startup: nothing, or two sales of an earlier
\* session.
HistoryDocs ==
  {DefaultAppData,
   AppDataOf(Arr(<<>>), Arr(<<>>),
             Arr(<<Sale(GenId("sale", 1, 1), 100, 10), Sale(UserId(1), 70, 30)>>), 0,
             Arr(<<>>))}
\* The backups the user restores while the table is open: an empty ledger and
\* a ledger of one sale.
HistoryFiles ==
  {FileOf(DefaultAppData),
   FileOf(AppDataOf(Arr(<<>>), Arr(<<>>), Arr(<<Sale(UserId(1), 70, 30)>>), 0, Arr(<<>>)))}
ImportBackup ==
  \E file \in HistoryFiles :
    Dispatch("import", [file |-> file, isConfirmed |-> TRUE],
             handleFileChange(appData, file, TRUE))
InitHistory ==
  /\ appData \in HistoryDocs
  /\ passes = 0
  /\ last = NoStep
  /\ Unopened
NextHistory ==
  \/ Mount
  \/ passes >= 1 /\ RecordSale(FewInputs)
  \/ passes >= 1 /\ ImportBackup
  \/ passes >= 1 /\ EditClick
  \/ passes >= 1 /\ EditChange
  \/ passes >= 1 /\ SaveClick
  \/ passes >= 1 /\ TrashClick
  \/ passes >= 1 /\ CancelDeleteClick
  \/ passes >= 1 /\ CancelClick
  \/ passes >= 1 /\ ConfirmDeleteClick
SpecHistory == InitHistory /\ [][NextHistory]_vars

(* --------- SpecLedger: a new installation, every mutator, no import ---- *)
\* What the store holds at startup: nothing, or the ledger of an earlier
\* session, whose ids the handlers generated then.
LedgerDocs ==
  {DefaultAppData,
   AppDataOf(Arr(<<InventoryItem(GenId("inv", 1, 1), "Cheese", 1, Whole(2), 10)>>), Arr(<<>>),
             Arr(<<Sale(GenId("sale", 1, 1), 100, 10)>>), 0, Arr(<<>>))}
InitLedger ==
  /\ appData \in LedgerDocs
  /\ passes = 0
  /\ last = NoStep
  /\ Unopened
NextLedger ==
  Mount \/ Mutation(LedgerInputs) \/ (passes >= 1 /\ DispatchTwo(LedgerInputs))
SpecLedger == InitLedger /\ [][NextLedger]_vars

(* ------------------- SpecMigrate: the migration alone ------------------ *)
RawIds == {NoId, UserId(1), GenId("migrated-inv", 1, 1), GenId("migrated-sale", 1, 1)}
RawInventoryEntries ==
  {BadInventory("null"), BadInventory("prim")}
    \cup {InventoryItem(id, item, 1, Whole(1), 10) :
            id \in RawIds \ {GenId("migrated-sale", 1, 1)}, item \in {"Dough", Undef}}
RawSaleEntries ==
  {BadSale("null")}
    \cup {Sale(id, 100, 10) : id \in RawIds \ {GenId("migrated-inv", 1, 1)}}
SeqsUpTo(S, n) == UNION {[1..k -> S] : k \in 0..n}
RawInventories ==
  {NullColl, NumColl(5)} \cup {Arr(s) : s \in SeqsUpTo(RawInventoryEntries, 2)}
RawSalesColls ==
  {NullColl, AbsentColl} \cup {Arr(s) : s \in SeqsUpTo(RawSaleEntries, 2)}
RawPurchasesColls ==
  {AbsentColl, Arr(<<>>), Arr(<<Purchase("Dough", 10, 50, 10), BadPurchase("prim")>>)}
RawExpensesColls ==
  {NumColl(0), NumColl(5), NullColl, Arr(<<>>),
   Arr(<<BadExpense("null"), Expense("Gas", 3)>>)}

\* The inventory and the sales are migrated independently of each other, so
\* the raw documents vary one of them at a time.
RawDocs ==
  {NonObjectRoot("null"), NonObjectRoot("prim")}
    \cup {AppDataOf(inv, p, Arr(<<>>), 1, e) :
            inv \in RawInventories, p \in RawPurchasesColls, e \in {Arr(<<>>)}}
    \cup {AppDataOf(Arr(<<>>), Arr(<<>>), s, 1, e) :
            s \in RawSalesColls, e \in RawExpensesColls}

InitMigrate ==
  /\ appData \in RawDocs
  /\ passes = 0
  /\ last = NoStep
  /\ Unopened
NextMigrate == (passes < MaxPasses /\ MigrationPass) \/ Render
SpecMigrate == InitMigrate /\ [][NextMigrate]_vars

(* ======================= claims about the migration ==================== *)
\* The ids of a collection are pairwise different.
UniqueIds(c) ==
  \A i, j \in 1..Len(c.items) : i # j => c.items[i].id # c.items[j].id

\* C1: migration is idempotent: a pass applied to the result of a pass returns
\* its input unchanged and reports changed = false.
MigrationIdempotent ==
  (last.op = "migrate" /\ passes >= 2 /\ ~last.raised) =>
    (~last.changed /\ appData = last.prev)
\* A second pass, run at another millisecond than the first, met ids that the
\* first pass had generated.
MigrationIdempotentWitness ==
  /\ last.op = "migrate" /\ passes = 2 /\ ~last.raised
  /\ \E i \in 1..Len(appData.inventory.items) :
       /\ appData.inventory.items[i].id[1] = "migrated-inv"
       /\ appData.inventory.items[i].id[2] # last.arg.now
       /\ appData.inventory.items[i].id[3] = i - 1
  /\ Len(appData.purchases.items) = 1

\* C2: after migration every InventoryItem.id is unique within inventory and
\* every Sale.id is unique within sales, whatever ids the document carried.
IdsUniqueAfterMigration ==
  (last.op = "migrate" /\ ~last.raised) =>
    (UniqueIds(appData.inventory) /\ UniqueIds(appData.sales))

\* C5: migration never raises, whatever the stored value is, a root that is
\* null or a primitive included.
MigrationNeverRaises == last.op = "migrate" => ~last.raised

\* C6: a stored otherExpenses that is the bare number N becomes
\* [{name: "Legacy Other Expenses", amount: N}] when N > 0 and [] otherwise,
\* and the pass reports changed = true.
LegacyExpensesConverted ==
  (last.op = "migrate" /\ ~last.raised /\ last.prev.otherExpenses.kind = "num") =>
    /\ last.changed
    /\ appData.otherExpenses =
         (IF last.prev.otherExpenses.n > 0
          THEN Arr(<<Expense("Legacy Other Expenses", last.prev.otherExpenses.n)>>)
          ELSE Arr(<<>>))

(* ==================== claims about the stock handlers ================== *)
\* C7: recordPurchase appends the purchase (dated now when it has no date) to
\* purchases and exactly one new item to inventory, leaving the items already
\* there as they are, also those of the same name; the new item has the
\* purchase's item, quantity and date, and its costPerUnit is cost/quantity
\* when both are > 0 and 0 otherwise.
PurchaseAppendsOneItem ==
  (last.op = "recordPurchase" /\ ~last.raised) =>
    LET p == last.arg.purchase
        date == IF p.date = 0 THEN last.arg.now ELSE p.date
        old == last.prev.inventory.items
        inv == appData.inventory.items
        new == inv[Len(old) + 1]
    IN /\ appData.purchases.items =
            Append(last.prev.purchases.items, Purchase(p.item, p.quantity, p.cost, date))
       /\ Len(inv) = Len(old) + 1
       /\ SubSeq(inv, 1, Len(old)) = old
       /\ new.kind = "obj" /\ new.item = p.item /\ new.quantity = p.quantity
       /\ new.date = date
       /\ (p.cost > 0 /\ p.quantity > 0) =>
            (new.costPerUnit[2] > 0
               /\ new.costPerUnit[1] * p.quantity = p.cost * new.costPerUnit[2])
       /\ ~(p.cost > 0 /\ p.quantity > 0) => new.costPerUnit = <<0, 1>>
\* A purchase with cost and quantity > 0 was recorded for a name the
\* inventory already held.
PurchaseAppendsOneItemWitness ==
  /\ last.op = "recordPurchase" /\ ~last.raised
  /\ last.arg.purchase.cost > 0 /\ last.arg.purchase.quantity > 0
  /\ \E i \in 1..Len(last.prev.inventory.items) :
       last.prev.inventory.items[i].item = last.arg.purchase.item
  /\ Len(appData.inventory.items) = 2

\* Some entry of the inventory has the name, compared without regard to case.
NameTaken(c, name) ==
  \E i \in 1..Len(c.items) : ToLowerCase(c.items[i].item) = ToLowerCase(name)

\* C8: createInventoryItem leaves the state unchanged and signals the duplicate
\* when an item of the same name (case-insensitively) exists, one created by a
\* purchase included; otherwise it appends exactly one item, the given one
\* under an id that no item carried.
CreateRejectsDuplicate ==
  last.op = "createInventoryItem" =>
    LET item == last.arg.item
        old == last.prev.inventory.items
        inv == appData.inventory.items
    IN /\ ~last.raised
       /\ NameTaken(last.prev.inventory, item.item) =>
            (appData = last.prev /\ last.alert = "exists")
       /\ ~NameTaken(last.prev.inventory, item.item) =>
            /\ last.alert = "none"
            /\ inv = Append(old, [item EXCEPT !.id = inv[Len(inv)].id])
            /\ ~Falsy(inv[Len(inv)].id)
            /\ inv[Len(inv)].id \notin IdsIn(last.prev.inventory)
            /\ appData = [last.prev EXCEPT !.inventory = appData.inventory]
\* A creation was rejected for a name that a purchase had put in the inventory
\* in another case.
CreateRejectsDuplicateWitness ==
  /\ last.op = "createInventoryItem" /\ last.alert = "exists"
  /\ Len(last.prev.purchases.items) = 1
  /\ Len(last.prev.inventory.items) = 1
  /\ last.prev.inventory.items[1].item # last.arg.item.item

\* C9: from an empty ledger, as long as no purchase was recorded (purchases is
\* still empty: only recordPurchase writes it), no two inventory entries have
\* names that are equal case-insensitively.
NamesUniqueWithoutPurchase ==
  (IsArray(appData.purchases) /\ Len(appData.purchases.items) = 0) =>
    \A i, j \in 1..Len(appData.inventory.items) :
      i # j =>
        ToLowerCase(appData.inventory.items[i].item)
          # ToLowerCase(appData.inventory.items[j].item)

(* ====================== claims about the application =================== *)
MutatorOps ==
  {"recordPurchase", "recordSale", "updateSale", "deleteSale", "createInventoryItem",
   "updateInventoryItem", "deleteInventoryItem", "setRent", "addExpense", "deleteExpense"}
WellFormed(c) == IsArray(c) /\ \A i \in 1..Len(c.items) : c.items[i].kind = "obj"

\* C3: once the startup migration has run, whatever mutations and confirmed
\* imports follow, each of inventory, purchases, sales and otherExpenses of the
\* working copy is an array of non-null objects (stated here for a working
\* copy whose root is an object).
CollectionsWellFormed ==
  (passes >= 1 /\ appData.root = "obj") =>
    \A key \in Keys : WellFormed(Field(appData, key))

\* C4: every mutator operation is total: applied to a working copy reachable by
\* startup, mutations and confirmed imports, it never raises.
MutatorsTotal == last.op \in MutatorOps => ~last.raised

\* C10: updateSale(s) where s.id matches replaces exactly one entry, the one
\* carrying s.id, and no other, in every reachable working copy.
UpdateSaleReplacesOne ==
  (last.op = "updateSale" /\ ~last.raised
     /\ last.arg.sale.id \in IdsIn(last.prev.sales)) =>
    \E i \in 1..Len(last.prev.sales.items) :
      /\ last.prev.sales.items[i].id = last.arg.sale.id
      /\ appData.sales.items = [last.prev.sales.items EXCEPT ![i] = last.arg.sale]

(* ========================= claims about the ledger ===================== *)
\* C11: updateSale, deleteSale, updateInventoryItem and deleteInventoryItem
\* called with an id that no entry of the collection carries are silent no-ops:
\* nothing is raised or signalled and the working copy is equal to the previous
\* one, in every collection.
UnknownIdIsNoOp ==
  /\ (last.op \in {"updateSale", "deleteSale"}
        /\ (IF last.op = "updateSale" THEN last.arg.sale.id ELSE last.arg.id)
             \notin IdsIn(last.prev.sales)) =>
       (~last.raised /\ last.alert = "none" /\ appData = last.prev)
  /\ (last.op \in {"updateInventoryItem", "deleteInventoryItem"}
        /\ (IF last.op = "updateInventoryItem" THEN last.arg.item.id ELSE last.arg.id)
             \notin IdsIn(last.prev.inventory)) =>
       (~last.raised /\ last.alert = "none" /\ appData = last.prev)
\* A delete with an unknown id was applied to sales and an inventory that both
\* held entries.
UnknownIdIsNoOpWitness ==
  /\ last.op \in {"deleteSale", "deleteInventoryItem"}
  /\ last.arg.id = UnknownId
  /\ Len(last.prev.sales.items) >= 1
  /\ Len(last.prev.inventory.items) >= 1

\* C14: starting from a canonical document, after any sequence of mutator
\* operations every InventoryItem.id is unique within inventory and every
\* Sale.id is unique within sales, the ids assigned at creation being fresh.
LedgerIdsUnique == UniqueIds(appData.inventory) /\ UniqueIds(appData.sales)
\* A sale was updated in a ledger of two sales recorded in the same
\* millisecond, and the inventory holds an item.
LedgerIdsUniqueWitness ==
  /\ last.op = "updateSale" /\ last.arg.sale.id \in IdsIn(last.prev.sales)
  /\ Len(appData.sales.items) = 2
  /\ appData.sales.items[1].id[2] = appData.sales.items[2].id[2]
  /\ Len(appData.inventory.items) = 1

\* C16: purchases are append-only under the mutators: after each of them the
\* purchases list is the one before it or that list with one purchase appended;
\* none edits, reorders or removes a recorded purchase.
PurchasesAppendOnly ==
  last.op \in MutatorOps =>
    LET old == last.prev.purchases.items
        new == appData.purchases.items
    IN \/ appData.purchases = last.prev.purchases
       \/ IsArray(appData.purchases) /\ Len(new) = Len(old) + 1
            /\ SubSeq(new, 1, Len(old)) = old
\* The item that a purchase had created was deleted; the purchase is still
\* recorded.
PurchasesAppendOnlyWitness ==
  /\ last.op = "deleteInventoryItem"
  /\ Len(last.prev.purchases.items) = 1
  /\ Len(last.prev.inventory.items) = 1 /\ Len(appData.inventory.items) = 0
  /\ last.prev.inventory.items[1].item = last.prev.purchases.items[1].item
  /\ Len(appData.purchases.items) = 1

\* C17: recordSale appends exactly one sale, the given one under an id that no
\* sale carried and dated now when it has no date, and leaves inventory,
\* purchases, rent and otherExpenses unchanged: no quantity is decremented.
SaleAppendsOnly ==
  last.op = "recordSale" =>
    LET sale == last.arg.sale
        old == last.prev.sales.items
        new == appData.sales.items[Len(appData.sales.items)]
    IN /\ ~last.raised
       /\ appData.sales.items = Append(old, new)
       /\ new.kind = "obj" /\ new.revenue = sale.revenue
       /\ new.date = (IF sale.date = 0 THEN last.arg.now ELSE sale.date)
       /\ ~Falsy(new.id) /\ new.id \notin IdsIn(last.prev.sales)
       /\ appData.inventory = last.prev.inventory
       /\ appData.purchases = last.prev.purchases
       /\ appData.rent = last.prev.rent
       /\ appData.otherExpenses = last.prev.otherExpenses
\* A sale that came with a date was recorded in a ledger that held a sale, an
\* item in stock and a rent.
SaleAppendsOnlyWitness ==
  /\ last.op = "recordSale" /\ last.arg.sale.date # 0
  /\ Len(last.prev.sales.items) = 1
  /\ Len(last.prev.inventory.items) = 1 /\ last.prev.inventory.items[1].quantity > 0
  /\ last.prev.rent = 500

\* C18, as stated: positional expense deletion is unstable under appends: after
\* an addExpense, the index of some expense that was there before designates a
\* different expense.
ExpenseIndexShiftsOnAppend ==
  (last.op = "addExpense" /\ ~last.raised /\ Len(last.prev.otherExpenses.items) >= 1) =>
    \E k \in 1..Len(last.prev.otherExpenses.items) :
      appData.otherExpenses.items[k] # last.prev.otherExpenses.items[k]
\* C18, amended: addExpense appends at the end, so the index of every expense
\* that was there before designates the same expense afterwards, and
\* deleteExpense with that index removes exactly it; it is deleteExpense that
\* shifts indices: after a deletion at index i every later expense is
\* designated by its former index minus one.
ExpenseIndexStableOnAppend ==
  LET old == last.prev.otherExpenses.items
      new == appData.otherExpenses.items
  IN /\ (last.op = "addExpense" /\ ~last.raised) =>
          /\ Len(new) = Len(old) + 1
          /\ \A k \in 1..Len(old) :
               /\ new[k] = old[k]
               /\ handleDeleteExpense(appData, k - 1).data.otherExpenses.items
                    = SubSeq(old, 1, k - 1) \o SubSeq(old, k + 1, Len(old))
                        \o <<last.arg.expense>>
     /\ (last.op = "deleteExpense" /\ ~last.raised /\ last.arg.index < Len(old)) =>
          /\ Len(new) = Len(old) - 1
          /\ \A k \in 1..last.arg.index : new[k] = old[k]
          /\ \A k \in (last.arg.index + 2)..Len(old) : new[k - 1] = old[k]
\* An expense was added to a list that held another one.
ExpenseIndexStableOnAppendWitness ==
  /\ last.op = "addExpense" /\ ~last.raised
  /\ Len(last.prev.otherExpenses.items) >= 1
  /\ last.prev.otherExpenses.items[1] # last.arg.expense
  /\ appData.otherExpenses.items[1] = last.prev.otherExpenses.items[1]

ImportReplacesOnlyWhenAccepted ==
  last.op = "import" =>
    LET file == last.arg.file
        v == file.value
        isDocument == file.parses /\ v.root = "obj"
        hasKeys == \A key \in {"inventory", "sales", "purchases"} :
                     Field(v, key).kind # "absent"
    IN /\ ~last.raised
       /\ (isDocument /\ hasKeys /\ last.arg.isConfirmed) =>
            (appData = v /\ last.alert = "imported")
       /\ ~(isDocument /\ hasKeys /\ last.arg.isConfirmed) => appData = last.prev
       /\ ~(isDocument /\ hasKeys) => last.alert = "import-failed"
\* A confirmed import replaced a working copy that held purchases and a rent by
\* a document that has neither.
ImportReplacesOnlyWhenAcceptedWitness ==
  /\ last.op = "import" /\ last.alert = "imported"
  /\ last.prev.root = "obj" /\ IsArray(last.prev.purchases)
  /\ Len(last.prev.purchases.items) = 1 /\ last.prev.rent = 500
  /\ appData.purchases = Arr(<<>>) /\ appData.rent = 0

\* A canonical document: four arrays of objects, every inventory item and sale
\* under an id of its own.
Canonical(d) ==
  /\ d.root = "obj"
  /\ \A key \in Keys : WellFormed(Field(d, key))
  /\ UniqueIds(d.inventory) /\ UniqueIds(d.sales)
  /\ \A i \in 1..Len(d.inventory.items) : ~Falsy(d.inventory.items[i].id)
  /\ \A i \in 1..Len(d.sales.items) : ~Falsy(d.sales.items[i].id)

RECURSIVE IsSubsequence(_, _)
\* The entries of a are entries of b, in the order they have in b.
IsSubsequence(a, b) ==
  IF a = <<>> THEN TRUE
  ELSE IF b = <<>> THEN FALSE
  ELSE IF Head(a) = Head(b) THEN IsSubsequence(Tail(a), Tail(b))
  ELSE IsSubsequence(a, Tail(b))

\* C15: the sanitized view has, for each of the four collections, an array of
\* only non-null objects, no longer than the original, whose entries are
\* entries of the original in their order and as they are (no id is assigned);
\* computing it leaves the working copy as it is.
SanitizedViewSafe ==
  (last.op = "render" /\ ~last.raised) =>
    /\ appData = last.prev
    /\ last.arg.view.root = "obj"
    /\ \A key \in Keys :
         LET v == Field(last.arg.view, key)
             o == Field(last.prev, key)
         IN /\ WellFormed(v)
            /\ Len(v.items) <= Len(o.items)
            /\ IsSubsequence(v.items, o.items)
\* Before any migration, the view of an inventory of a null and an object
\* without an id: the object alone, still without an id.
SanitizedViewSafeWitness ==
  /\ last.op = "render" /\ ~last.raised /\ passes = 0
  /\ Len(last.prev.inventory.items) = 2
  /\ last.prev.inventory.items[1].kind = "null"
  /\ Len(last.arg.view.inventory.items) = 1
  /\ Falsy(last.arg.view.inventory.items[1].id)

(* ========================= claims about the ids ======================== *)
\* The ids a pass generated in a collection carry the marker and differ from
\* one another: kept are the entries the pass found, in their order.
GeneratedIdsMarked(before, after, marker) ==
  LET kept == SelectSeq(before.items, LAMBDA e : e.kind = "obj")
  IN (IsArray(before) /\ Len(after.items) = Len(kept)) =>
       \A i \in 1..Len(kept) :
         Falsy(kept[i].id) =>
           /\ after.items[i].id[1] = marker
           /\ \A j \in 1..Len(kept) :
                (j # i /\ Falsy(kept[j].id)) => after.items[j].id # after.items[i].id
\* The entry a handler appended to a collection, if any, has an id without a
\* migration marker.
AppendedIdUnmarked(before, after) ==
  (IsArray(before) /\ Len(after.items) = Len(before.items) + 1) =>
    after.items[Len(after.items)].id[1] \notin {"migrated-inv", "migrated-sale"}

\* C20: the ids generated in one migration pass carry a migration marker that
\* no id produced by recordPurchase, recordSale or createInventoryItem carries,
\* and within the pass no two entries of a collection receive the same id.
MigratedIdsMarkedAndDistinct ==
  /\ (last.op = "migrate" /\ ~last.raised) =>
       /\ GeneratedIdsMarked(last.prev.inventory, appData.inventory, "migrated-inv")
       /\ GeneratedIdsMarked(last.prev.sales, appData.sales, "migrated-sale")
  /\ (last.op \in {"recordPurchase", "recordSale", "createInventoryItem"}
        /\ ~last.raised) =>
       /\ AppendedIdUnmarked(last.prev.inventory, appData.inventory)
       /\ AppendedIdUnmarked(last.prev.sales, appData.sales)
\* The pass gave ids to two sales that had none.
MigratedIdsMarkedAndDistinctWitness ==
  /\ last.op = "migrate" /\ ~last.raised /\ last.changed
  /\ Len(last.prev.sales.items) = 2
  /\ Falsy(last.prev.sales.items[1].id) /\ Falsy(last.prev.sales.items[2].id)
  /\ appData.sales.items[1].id[1] = "migrated-sale"
  /\ appData.sales.items[2].id[1] = "migrated-sale"

\* The entries of a collection that are non-null objects, in their order; none
\* when the collection is no array.
ObjectEntries(c) ==
  IF IsArray(c) THEN SelectSeq(c.items, LAMBDA e : e.kind = "obj") ELSE <<>>
\* after holds the object entries of before, in order and field by field, but
\* for an id in the place of a missing one when the collection takes ids.
OnlyRepaired(before, after, takesIds) ==
  LET kept == ObjectEntries(before)
  IN /\ IsArray(after)
     /\ Len(after.items) = Len(kept)
     /\ \A i \in 1..Len(kept) :
          \/ after.items[i] = kept[i]
          \/ /\ takesIds /\ Falsy(kept[i].id) /\ ~Falsy(after.items[i].id)
             /\ after.items[i] = [kept[i] EXCEPT !.id = after.items[i].id]

\* C21: migration only repairs: every entry that is a non-null object is kept,
\* in its relative order and with all its fields, an entry with a truthy id
\* keeps it, and rent is unchanged; the output differs from the input only by
\* dropped non-object entries, non-array collections replaced by the empty
\* list and ids given to inventory items and sales that lacked one.
MigrationOnlyRepairs ==
  (last.op = "migrate" /\ ~last.raised) =>
    /\ appData.rent = last.prev.rent
    /\ appData.root = last.prev.root
    /\ OnlyRepaired(last.prev.inventory, appData.inventory, TRUE)
    /\ OnlyRepaired(last.prev.sales, appData.sales, TRUE)
    /\ OnlyRepaired(last.prev.purchases, appData.purchases, FALSE)
    /\ OnlyRepaired(last.prev.otherExpenses, appData.otherExpenses, FALSE)
\* A pass dropped a null from before an inventory item that had an id, and a
\* primitive from after a purchase.
MigrationOnlyRepairsWitness ==
  /\ last.op = "migrate" /\ ~last.raised /\ last.changed
  /\ Len(last.prev.inventory.items) = 2
  /\ last.prev.inventory.items[1].kind = "null"
  /\ ~Falsy(last.prev.inventory.items[2].id)
  /\ appData.inventory.items = <<last.prev.inventory.items[2]>>
  /\ Len(last.prev.purchases.items) = 2
  /\ appData.purchases.items = <<last.prev.purchases.items[1]>>

(* ===================== claims about the sales history ================== *)
\* C22: onDeleteSale(id) is only invoked after the user entered edit mode on
\* the sale with that id and then requested the deletion of that sale, with no
\* cancel or other edit click in between, and confirmed; and in every state a
\* pending delete request (saleToDeleteId not null) is for the sale being
\* edited.
DeleteOnlyAfterRequest ==
  /\ salesHistory.saleToDeleteId # NullId =>
       salesHistory.saleToDeleteId = salesHistory.editingSaleId
  /\ last.op = "confirmDelete" =>
       (last.arg.entered = last.arg.id /\ last.arg.requested = last.arg.id)
\* The deletion of one of two sales was confirmed.
DeleteOnlyAfterRequestWitness ==
  /\ last.op = "confirmDelete" /\ ~last.raised
  /\ Len(last.prev.sales.items) = 2
  /\ Len(appData.sales.items) = 1
  /\ last.arg.id \notin IdsIn(appData.sales)
  /\ salesHistory = HistoryClosed

\* C23: editingSaleId and editedSale are both unset or both set; the sale that
\* a save passes to onUpdateSale carries the id of the sale on which edit mode
\* was entered and a revenue that is a number, 0 when the text typed is no
\* number; the save puts it in the place of the sale of that id and changes
\* nothing else (the save button is shown in the row of that sale only, so
\* there is no save of a sale that is gone).
SaveUpdatesEditedSale ==
  /\ (salesHistory.editingSaleId = NullId) <=> (salesHistory.editedSale.kind # "obj")
  /\ last.op = "saveClick" =>
       LET sale == last.arg.sale
           old == last.prev.sales.items
           new == appData.sales.items
       IN /\ ~last.raised
          /\ sale.id = last.arg.entered
          /\ sale.date = last.arg.edited.date
          /\ last.arg.typed = Untyped => sale.revenue = last.arg.edited.revenue
          /\ last.arg.typed = "" => sale.revenue = 0
          /\ last.arg.typed = "250" => sale.revenue = 250
          /\ last.arg.typed = "007" => sale.revenue = 7
          /\ Len(new) = Len(old)
          /\ \A i \in 1..Len(old) :
               new[i] = (IF old[i].id = last.arg.entered THEN sale ELSE old[i])
          /\ appData = [last.prev EXCEPT !.sales = appData.sales]
\* A save after the date was changed and the revenue field was emptied: of two
\* sales, the edited one has the new date and the revenue 0.
SaveUpdatesEditedSaleWitness ==
  /\ last.op = "saveClick" /\ last.arg.typed = ""
  /\ Len(last.prev.sales.items) = 2
  /\ \E i \in 1..2 :
       /\ last.prev.sales.items[i].id = last.arg.entered
       /\ last.prev.sales.items[i].revenue > 0
       /\ last.prev.sales.items[i].date # 20
       /\ appData.sales.items[i] = Sale(last.arg.entered, 0, 20)
  /\ salesHistory.editingSaleId = NullId
====
